---- MODULE Spec2Model ----
(***************************************************************************)
(* A model of build_sdk.py, the driver that builds the microkit SDK: it    *)
(* creates the release tree, copies the licenses, builds the tool and the  *)
(* manual, and for every (board, config) cell runs the kernel, loader,     *)
(* monitor and library stages and copies their outputs into the tree.      *)
(*                                                                         *)
(* The release tree is a function from paths (sequences of names, relative *)
(* to release/microkit-sdk-<VERSION>) to files (content and mode).  The    *)
(* run is made by an unprivileged user: an existing file without an owner  *)
(* write bit cannot be opened for writing, but can be unlinked.            *)
(***************************************************************************)
EXTENDS Integers, Sequences, FiniteSets, TLC

(***************************************************************************)
(* Bounds of the model.                                                    *)
(***************************************************************************)
\* how many boards of SUPPORTED_BOARDS (a prefix) the matrix runs over
NumBoards == 2
\* how many distinct relative header names the include source trees draw from
NumHeaderNames == 1
\* how many option names the kernel option dictionaries draw from
NumOptNames == 3
\* how many string values the kernel option dictionaries draw from
NumStrValues == 1

(***************************************************************************)
(* The catalog (SUPPORTED_BOARDS, SUPPORTED_CONFIGS).  A dictionary is a   *)
(* function from its keys; an option value is tagged bool or str.  A link  *)
(* address is kept as its two 16-bit halves.                               *)
(***************************************************************************)
B(b) == [tag |-> "bool", b |-> b, s |-> ""]
S(s) == [tag |-> "str", b |-> FALSE, s |-> s]

SUPPORTED_BOARDS ==
  << [name |-> "tqma8xqp1gb", gcc_cpu |-> "cortex-a35",
      loader_link_address |-> <<32808, 0>>,
      kernel_options |-> [KernelPlatform |-> S("tqma8xqp1gb"), KernelIsMCS |-> B(TRUE),
                          KernelArmExportPCNTUser |-> B(TRUE)],
      examples |-> {"ethernet"}],
     [name |-> "zcu102", gcc_cpu |-> "cortex-a53",
      loader_link_address |-> <<16384, 0>>,
      kernel_options |-> [KernelPlatform |-> S("zynqmp"), KernelARMPlatform |-> S("zcu102"),
                          KernelIsMCS |-> B(TRUE), KernelArmExportPCNTUser |-> B(TRUE)],
      examples |-> {"hello"}],
     [name |-> "maaxboard", gcc_cpu |-> "cortex-a53",
      loader_link_address |-> <<16456, 0>>,
      kernel_options |-> [KernelPlatform |-> S("maaxboard"), KernelIsMCS |-> B(TRUE),
                          KernelArmExportPCNTUser |-> B(TRUE)],
      examples |-> {"hello"}],
     [name |-> "imx8mm_evk", gcc_cpu |-> "cortex-a53",
      loader_link_address |-> <<16640, 0>>,
      kernel_options |-> [KernelPlatform |-> S("imx8mm-evk"), KernelIsMCS |-> B(TRUE),
                          KernelArmExportPCNTUser |-> B(TRUE)],
      examples |-> {"passive_server"}],
     [name |-> "imx8mq_evk", gcc_cpu |-> "cortex-a53",
      loader_link_address |-> <<16640, 0>>,
      kernel_options |-> [KernelPlatform |-> S("imx8mq-evk"), KernelIsMCS |-> B(TRUE),
                          KernelArmExportPCNTUser |-> B(TRUE)],
      examples |-> {"hello"}],
     [name |-> "odroidc2", gcc_cpu |-> "cortex-a53",
      loader_link_address |-> <<8192, 0>>,
      kernel_options |-> [KernelPlatform |-> S("odroidc2"), KernelIsMCS |-> B(TRUE),
                          KernelArmExportPCNTUser |-> B(TRUE)],
      examples |-> {"hello"}],
     [name |-> "odroidc4", gcc_cpu |-> "cortex-a55",
      loader_link_address |-> <<8192, 0>>,
      kernel_options |-> [KernelPlatform |-> S("odroidc4"), KernelIsMCS |-> B(TRUE),
                          KernelArmExportPCNTUser |-> B(TRUE)],
      examples |-> {"timer"}],
     [name |-> "qemu_virt_aarch64", gcc_cpu |-> "cortex-a53",
      loader_link_address |-> <<28672, 0>>,
      kernel_options |-> [KernelPlatform |-> S("qemu-arm-virt"), KernelIsMCS |-> B(TRUE),
                          KernelArmExportPCNTUser |-> B(TRUE), QEMU_MEMORY |-> S("2048")],
      examples |-> {"hello"}] >>

SUPPORTED_CONFIGS ==
  << [name |-> "release", debug |-> FALSE, kernel_options |-> << >>],
     [name |-> "debug", debug |-> TRUE,
      kernel_options |-> [KernelDebugBuild |-> B(TRUE), KernelPrinting |-> B(TRUE),
                          KernelVerificationBuild |-> B(FALSE)]] >>

\* the boards the matrix of the model runs over, in catalog order
Boards == SubSeq(SUPPORTED_BOARDS, 1, NumBoards)
Configs == SUPPORTED_CONFIGS

BoardIdx == 1..Len(Boards)
ConfigIdx == 1..Len(Configs)

(***************************************************************************)
(* File modes.                                                             *)
(***************************************************************************)
Octal(u, g, o) == u * 64 + g * 8 + o

\* dest.chmod(0o444)
ModeReadOnly == Octal(4, 4, 4)
\* tool_target.chmod(0o777)
ModeTool == Octal(7, 7, 7)
\* the mode of a file a build command or the checkout creates (umask 022)
ModeDefault == Octal(6, 4, 4)

\* some write permission bit (owner, group or other) is set
HasWriteBit(m) == \/ (m \div 128) % 2 = 1
                  \/ (m \div 16) % 2 = 1
                  \/ (m \div 2) % 2 = 1

\* the owner may open the file for writing
OwnerWritable(m) == (m \div 128) % 2 = 1

(***************************************************************************)
(* Paths of the release tree, relative to root_dir.                        *)
(***************************************************************************)
LicenseDest == <<"LICENSE.md">>
LicensesDir == <<"LICENSES">>
ToolTarget == <<"bin", "microkit">>
DocOutput == <<"doc", "microkit_user_manual.pdf">>

\* CellDir without the config's own name: every config of a board shares a directory
CellDirSharedByConfigs(board, config) == <<"board", board.name, "release">>

\* root_dir / "board" / board.name / config.name
CellDir(board, config) == <<"board", board.name, config.name>>
ElfDest(board, config, component) == CellDir(board, config) \o <<"elf", component \o ".elf">>
LibDir(board, config) == CellDir(board, config) \o <<"lib">>
IncludeDir(board, config) == CellDir(board, config) \o <<"include">>
ExampleDir(board, example) == <<"board", board.name, "example", example>>

\* dir_structure of main
DirStructure ==
  {<<"doc">>, <<"bin">>, <<"board">>}
    \cup {<<"board", Boards[b].name>> : b \in BoardIdx}
    \cup {CellDir(Boards[b], Configs[c]) : b \in BoardIdx, c \in ConfigIdx}
    \cup {CellDir(Boards[b], Configs[c]) \o <<k>> :
            b \in BoardIdx, c \in ConfigIdx, k \in {"include", "lib", "elf"}}

Parent(p) == SubSeq(p, 1, Len(p) - 1)
\* a directory and all its ancestors (the root, << >>, included)
Ancestors(d) == {SubSeq(d, 1, n) : n \in 0..Len(d)}

(***************************************************************************)
(* The source trees the copy loops walk.  A relative path is a sequence of *)
(* names; every source tree of headers holds at most one of HeaderNames.   *)
(***************************************************************************)
HeaderRels == << <<"sel4", "gen_config.h">>, <<"autoconf.h">>, <<"microkit.h">>,
                 <<"kernel", "gen_config.h">> >>
HeaderNames == {HeaderRels[i] : i \in 1..NumHeaderNames}
NoHeader == << >>

\* the install directories build_sel4 copies headers from, in loop order
KernelHeaderSources == <<"kernel_Config", "libsel4", "libsel4/sel4_Config", "libsel4/autoconf">>
\* Path(component_name) / "include"
LibHeaderSource == "libmicrokit"
HeaderSources == {KernelHeaderSources[i] : i \in 1..Len(KernelHeaderSources)} \cup {LibHeaderSource}
HeaderLayouts == [HeaderSources -> HeaderNames \cup {NoHeader}]

\* the files of LICENSES/ and of an example project in the checkout
LicenseFiles == << <<"BSD-2-Clause.txt">> >>
ExampleFiles == << <<"Makefile">> >>

(***************************************************************************)
(* The file system: F.tree maps the paths of the files that exist to       *)
(* [content, mode]; F.dirs is the set of directories; F.writes counts the  *)
(* times a path was written by copy in this run; F.err is the OSError of   *)
(* the first operation that failed ("" when none) and F.errpath its path.  *)
(***************************************************************************)
Content(gen, src, rel) == [gen |-> gen, src |-> src, rel |-> rel]
File(content, mode) == [content |-> content, mode |-> mode]

\* Path.mkdir(exist_ok=True, parents=True)
Mkdir(F, d) ==
  IF F.err # "" THEN F ELSE [F EXCEPT !.dirs = @ \cup Ancestors(d)]

\* Path.unlink(missing_ok=True)
Unlink(F, p) ==
  IF F.err # "" THEN F
  ELSE [F EXCEPT !.tree = [q \in DOMAIN F.tree \ {p} |-> F.tree[q]]]

\* shutil.copy(src, dest) to a file path: copyfile, then copymode
Copy(F, present, content, mode, p) ==
  IF F.err # "" THEN F
  ELSE IF ~present \/ Parent(p) \notin F.dirs
    THEN [F EXCEPT !.err = "FileNotFoundError", !.errpath = p]
  ELSE IF p \in DOMAIN F.tree /\ ~OwnerWritable(F.tree[p].mode)
    THEN [F EXCEPT !.err = "PermissionError", !.errpath = p]
  ELSE [F EXCEPT !.tree = (p :> File(content, mode)) @@ F.tree,
                 !.writes = (p :> (IF p \in DOMAIN F.writes THEN F.writes[p] + 1 ELSE 1))
                              @@ F.writes]

\* Path.chmod(mode)
Chmod(F, p, mode) ==
  IF F.err # "" THEN F
  ELSE [F EXCEPT !.tree = [@ EXCEPT ![p] = File(@.content, mode)]]

\* StageFile without the final chmod: the copy keeps the mode of its source
StageFileNoChmod(F, present, content, p) ==
  Copy(Unlink(F, p), present, content, ModeDefault, p)

\* dest.unlink(missing_ok=True); copy(src, dest); dest.chmod(0o444)
StageFile(F, present, content, p) ==
  Chmod(Copy(Unlink(F, p), present, content, ModeDefault, p), p, ModeReadOnly)

\* the body of a copy loop: for p in source_dir.rglob("*"), for the files rels
\* (relative paths) of the source tree src, into dest_dir
RECURSIVE StageTree(_, _, _, _)
StageTree(F, src, rels, dest_dir) ==
  IF rels = << >> THEN F
  ELSE LET dest == dest_dir \o Head(rels)
       IN StageTree(StageFile(Mkdir(F, Parent(dest)), TRUE,
                              Content("new", src, Head(rels)), dest),
                    src, Tail(rels), dest_dir)

\* the files of the header source tree src under the layout h
HeaderFiles(h, src) == IF h[src] = NoHeader THEN << >> ELSE << h[src] >>

(***************************************************************************)
(* The state of a run of main().                                           *)
(***************************************************************************)
VARIABLES
  pc,             \* the position of main(): the next step, "done" or "error"
  bi, ci,         \* the indexes of the board and the config of the current cell
  tree,           \* the files of the release tree: path -> [content, mode]
  dirs,           \* the directories of the release tree
  writes,         \* path -> how many times this run has written it
  archives,       \* the archives written under release/
  cmds,           \* the external commands run so far, oldest first
  err,            \* the exception that ended the run
  default_triple, \* the default of --tool-target-triple
  triple,         \* args.tool_target_triple
  artifact,       \* whether the output of the last command exists in the build directory
  host,           \* (platform.system(), platform.machine()) of the machine of the run
  argv_triple,    \* the value of --tool-target-triple on the command line, "" if not given
  prior,          \* the release tree at the start: "none", or "full" (left by a complete run)
  lic_mode,       \* the mode of LICENSE.md in the checkout
  hdrs,           \* the header the kernel install and libmicrokit hold per source tree
  call            \* a function evaluated on its own: its arguments and its result

\* what a run is given and never changes
inputs == <<host, argv_triple, prior, lic_mode, hdrs, call>>

vars == <<pc, bi, ci, tree, dirs, writes, archives, cmds, err, default_triple, triple,
          artifact, inputs>>

NAME == "microkit"
VERSION == "1.2.6"
\* Path("release") / f"{NAME}-sdk-{VERSION}.tar.gz"
tar_file == NAME \o "-sdk-" \o VERSION \o ".tar.gz"
\* Path("release") / f"{NAME}-source-{VERSION}.tar.gz"
source_tar_file == NAME \o "-source-" \o VERSION \o ".tar.gz"

NoCall == [fn |-> "", done |-> FALSE]

NoCmd == [stage |-> "", board |-> "", config |-> "", flags |-> << >>, rc |-> 0]
Cmd(stage, board, config, flags, rc) ==
  [stage |-> stage, board |-> board, config |-> config, flags |-> flags, rc |-> rc]

NoErr == [kind |-> "", text |-> "", cmd |-> NoCmd, board |-> "", config |-> "", path |-> << >>]
\* raise Exception(text) with the values its f-string interpolates
Raise(text, cmd, board, config) ==
  [kind |-> "Exception", text |-> text, cmd |-> cmd, board |-> board, config |-> config,
   path |-> << >>]
\* a failed assert
AssertionError(text) == [NoErr EXCEPT !.kind = "AssertionError", !.text = text]
\* the OSError a file operation raised
OSError(F) == [NoErr EXCEPT !.kind = F.err, !.path = F.errpath]

\* the exit statuses a command is modelled to return: success, or a failure
ExitStatuses == {0, 1}

FS == [tree |-> tree, dirs |-> dirs, writes |-> writes, err |-> "", errpath |-> << >>]

\* the file system after the operations that gave F; the run goes on at next
\* unless one of them raised
Commit(F, next) ==
  /\ tree' = F.tree
  /\ dirs' = F.dirs
  /\ writes' = F.writes
  /\ IF F.err = "" THEN pc' = next /\ err' = err
                   ELSE pc' = "error" /\ err' = OSError(F)

(***************************************************************************)
(* The release tree a complete earlier run over the same checkout left.    *)
(***************************************************************************)
PriorContent(src, rel) == Content("prior", src, rel)

PriorFiles(lm, h) ==
  LET cellPaths(b, c) ==
        {ElfDest(b, c, k) : k \in {"sel4", "loader", "monitor"}}
          \cup {LibDir(b, c) \o <<"libmicrokit.a">>, LibDir(b, c) \o <<"microkit.ld">>}
          \cup {IncludeDir(b, c) \o h[s] : s \in {x \in HeaderSources : h[x] # NoHeader}}
      examplePaths(b) ==
        {ExampleDir(b, e) \o ExampleFiles[i] : e \in b.examples, i \in 1..Len(ExampleFiles)}
      paths == {LicenseDest, ToolTarget, DocOutput}
                 \cup {LicensesDir \o LicenseFiles[i] : i \in 1..Len(LicenseFiles)}
                 \cup UNION {cellPaths(Boards[b], Configs[c]) : b \in BoardIdx, c \in ConfigIdx}
                 \cup UNION {examplePaths(Boards[b]) : b \in BoardIdx}
  IN [p \in paths |-> File(PriorContent("prior", p),
                           IF p = LicenseDest THEN lm
                           ELSE IF p = ToolTarget THEN ModeTool
                           ELSE IF p = DocOutput THEN ModeDefault
                           ELSE ModeReadOnly)]

PriorDirs(files) == DirStructure \cup UNION {Ancestors(Parent(p)) : p \in DOMAIN files}

\* the hosts (platform.system(), platform.machine()) a run is made on
Hosts == {<<"Linux", "x86_64">>, <<"Darwin", "riscv64">>, <<"Windows", "AMD64">>}
\* the values of --tool-target-triple; "" when the option is not given
TripleArgs == {"", "aarch64-unknown-linux-musl"}

Init ==
  /\ pc = "detect"
  /\ bi = 1 /\ ci = 1
  /\ host \in Hosts
  /\ argv_triple \in TripleArgs
  /\ prior \in {"none", "full"}
  /\ lic_mode \in {ModeDefault, ModeReadOnly}
  /\ hdrs \in HeaderLayouts
  /\ tree = IF prior = "full" THEN PriorFiles(lic_mode, hdrs) ELSE << >>
  /\ dirs = IF prior = "full" THEN PriorDirs(PriorFiles(lic_mode, hdrs)) ELSE {}
  /\ writes = << >>
  /\ archives = {}
  /\ cmds = << >>
  /\ err = NoErr
  /\ default_triple = ""
  /\ triple = ""
  /\ artifact = FALSE
  /\ call = NoCall

(***************************************************************************)
(* get_tool_target_triple.                                                 *)
(***************************************************************************)
\* get_tool_target_triple falling back on the Linux triple where lines 219 and 221 raise
get_tool_target_triple_fallback(host_system, host_arch) ==
  IF host_system = "Darwin" /\ host_arch = "x86_64"
    THEN [ok |-> TRUE, triple |-> "x86_64-apple-darwin", text |-> ""]
  ELSE IF host_system = "Darwin" /\ host_arch = "arm64"
    THEN [ok |-> TRUE, triple |-> "aarch64-apple-darwin", text |-> ""]
  ELSE [ok |-> TRUE, triple |-> "x86_64-unknown-linux-musl", text |-> ""]

get_tool_target_triple(host_system, host_arch) ==
  IF host_system = "Linux" THEN [ok |-> TRUE, triple |-> "x86_64-unknown-linux-musl", text |-> ""]
  ELSE IF host_system = "Darwin" THEN
    IF host_arch = "x86_64" THEN [ok |-> TRUE, triple |-> "x86_64-apple-darwin", text |-> ""]
    ELSE IF host_arch = "arm64" THEN [ok |-> TRUE, triple |-> "aarch64-apple-darwin", text |-> ""]
    ELSE [ok |-> FALSE, triple |-> "", text |-> "Unexpected Darwin architecture: " \o host_arch]
  ELSE [ok |-> FALSE, triple |-> "",
        text |-> "The platform \"" \o host_system \o "\" is not supported"]


(***************************************************************************)
(* main(), up to the matrix.                                               *)
(***************************************************************************)
\* Detect evaluated only when the command line gives no --tool-target-triple
DetectWhenNeeded ==
  /\ pc = "detect"
  /\ LET t == get_tool_target_triple(host[1], host[2])
     IN IF t.ok \/ argv_triple # ""
          THEN /\ default_triple' = t.triple
               /\ pc' = "parse"
               /\ err' = err
          ELSE /\ default_triple' = default_triple
               /\ pc' = "error"
               /\ err' = Raise(t.text, NoCmd, "", "")
  /\ UNCHANGED <<bi, ci, tree, dirs, writes, archives, cmds, triple, artifact, inputs>>

\* line 417: the default of --tool-target-triple is evaluated as the parser is built
Detect ==
  /\ pc = "detect"
  /\ LET t == get_tool_target_triple(host[1], host[2])
     IN IF t.ok
          THEN /\ default_triple' = t.triple
               /\ pc' = "parse"
               /\ err' = err
          ELSE /\ default_triple' = default_triple
               /\ pc' = "error"
               /\ err' = Raise(t.text, NoCmd, "", "")
  /\ UNCHANGED <<bi, ci, tree, dirs, writes, archives, cmds, triple, artifact, inputs>>

\* line 418: parser.parse_args()
ParseArgs ==
  /\ pc = "parse"
  /\ triple' = IF argv_triple = "" THEN default_triple ELSE argv_triple
  /\ pc' = "check_sel4"
  /\ UNCHANGED <<bi, ci, tree, dirs, writes, archives, cmds, err, default_triple, artifact,
                 inputs>>

\* CheckSel4 placed after the mkdir loop of lines 443-444
CheckSel4AfterMkdirs ==
  /\ pc = "check_sel4"
  /\ \E exists \in BOOLEAN :
       IF exists THEN pc' = "mkdirs" /\ err' = err
       ELSE pc' = "error" /\ err' = Raise("sel4_dir: does not exist", NoCmd, "", "")
  /\ dirs' = dirs \cup DirStructure
  /\ UNCHANGED <<bi, ci, tree, writes, archives, cmds, default_triple, triple, artifact,
                 inputs>>

\* lines 419-421
CheckSel4 ==
  /\ pc = "check_sel4"
  /\ \E exists \in BOOLEAN :
       IF exists THEN pc' = "mkdirs" /\ err' = err
       ELSE pc' = "error" /\ err' = Raise("sel4_dir: does not exist", NoCmd, "", "")
  /\ UNCHANGED <<bi, ci, tree, dirs, writes, archives, cmds, default_triple, triple,
                 artifact, inputs>>

RECURSIVE MkdirAll(_, _)
MkdirAll(F, ds) ==
  IF ds = {} THEN F
  ELSE LET d == CHOOSE x \in ds : TRUE IN MkdirAll(Mkdir(F, d), ds \ {d})

\* lines 426-444
MakeDirs ==
  /\ pc = "mkdirs"
  /\ Commit(MkdirAll(FS, DirStructure), "license")
  /\ UNCHANGED <<bi, ci, archives, cmds, default_triple, triple, artifact, inputs>>

\* line 446: copy(Path("LICENSE.md"), root_dir)
CopyLicense ==
  /\ pc = "license"
  /\ Commit(Copy(FS, TRUE, Content("new", "LICENSE.md", << >>), lic_mode, LicenseDest),
            "licenses")
  /\ UNCHANGED <<bi, ci, archives, cmds, default_triple, triple, artifact, inputs>>

\* lines 447-457
CopyLicenses ==
  /\ pc = "licenses"
  /\ Commit(StageTree(FS, "LICENSES", LicenseFiles, LicensesDir), "tool_check")
  /\ UNCHANGED <<bi, ci, archives, cmds, default_triple, triple, artifact, inputs>>

\* ToolCheck without the test of line 460: the tool is tested and rebuilt on every run
ToolCheckAlwaysBuilds ==
  /\ pc = "tool_check"
  /\ pc' = "test_tool"
  /\ UNCHANGED <<bi, ci, tree, dirs, writes, archives, cmds, err, default_triple, triple,
                 artifact, inputs>>

\* lines 459-461
ToolCheck ==
  /\ pc = "tool_check"
  /\ pc' = IF ToolTarget \in DOMAIN tree THEN "doc" ELSE "test_tool"
  /\ UNCHANGED <<bi, ci, tree, dirs, writes, archives, cmds, err, default_triple, triple,
                 artifact, inputs>>

\* r = system(...); assert r == 0
RunAsserted(stage, flags, next) ==
  \E r \in ExitStatuses :
    /\ cmds' = Append(cmds, Cmd(stage, "", "", flags, r))
    /\ IF r = 0 THEN pc' = next /\ err' = err
       ELSE pc' = "error" /\ err' = AssertionError(stage)

\* lines 224-228
test_tool ==
  /\ pc = "test_tool"
  /\ RunAsserted("test_tool", << >>, "build_tool")
  /\ UNCHANGED <<bi, ci, tree, dirs, writes, archives, default_triple, triple, artifact,
                 inputs>>

\* lines 232-239
BuildTool ==
  /\ pc = "build_tool"
  /\ \E installed \in BOOLEAN :
       IF installed
         THEN RunAsserted("build_tool", <<"--target-triple", triple>>, "strip_tool")
         ELSE /\ pc' = "error"
              /\ err' = Raise("pyoxidizer does not appear to be installed in your Python environment",
                              NoCmd, "", "")
              /\ cmds' = cmds
  /\ UNCHANGED <<bi, ci, tree, dirs, writes, archives, default_triple, triple, artifact,
                 inputs>>

\* lines 241-244
StripTool ==
  /\ pc = "strip_tool"
  /\ RunAsserted("strip_tool", <<triple>>, "copy_tool")
  /\ UNCHANGED <<bi, ci, tree, dirs, writes, archives, default_triple, triple, artifact,
                 inputs>>

\* lines 246-248: copy(tool_output, tool_target); tool_target.chmod(0o777)
CopyTool ==
  /\ pc = "copy_tool"
  /\ Commit(Chmod(Copy(FS, TRUE, Content("new", "tool", <<triple>>), Octal(7, 5, 5), ToolTarget),
                  ToolTarget, ModeTool), "doc")
  /\ UNCHANGED <<bi, ci, archives, cmds, default_triple, triple, artifact, inputs>>

\* what pandoc does to its output file: it is created with the default mode, or
\* rewritten in place with the mode it has
WriteDoc(F) ==
  [F EXCEPT !.tree = (DocOutput :> File(Content("new", "docs/manual.md", << >>),
                                        IF DocOutput \in DOMAIN F.tree
                                          THEN F.tree[DocOutput].mode ELSE ModeDefault))
                       @@ F.tree,
            !.writes = (DocOutput :> 1) @@ F.writes]

\* lines 358-362
build_doc ==
  /\ pc = "doc"
  /\ \E r \in ExitStatuses :
       /\ cmds' = Append(cmds, Cmd("doc", "", "", << >>, r))
       /\ IF r = 0
            THEN Commit(WriteDoc(FS), "configure")
            ELSE /\ pc' = "error"
                 /\ err' = AssertionError("doc")
                 /\ UNCHANGED <<tree, dirs, writes>>
  /\ UNCHANGED <<bi, ci, archives, default_triple, triple, artifact, inputs>>

(***************************************************************************)
(* The kernel options of build_sel4 (lines 270-279).  Python orders the    *)
(* (name, value) tuples by name, and two tuples of one name by value:      *)
(* False < True, strings by code point, and a bool against a str raises    *)
(* TypeError.                                                              *)
(***************************************************************************)
\* the option names and the string values, each in the order of Python's str
OptionNameOrder == <<"KernelARMPlatform", "KernelArmExportPCNTUser", "KernelDebugBuild",
                     "KernelIsMCS", "KernelPlatform", "KernelPrinting",
                     "KernelVerificationBuild", "QEMU_MEMORY">>
StrValueOrder == <<"2048", "imx8mm-evk", "imx8mq-evk", "maaxboard", "odroidc2", "odroidc4",
                   "qemu-arm-virt", "tqma8xqp1gb", "zcu102", "zynqmp">>
Rank(order, x) == CHOOSE i \in 1..Len(order) : order[i] = x

\* list(d.items()) of a dictionary d
Items(d) ==
  LET names == SelectSeq(OptionNameOrder, LAMBDA n : n \in DOMAIN d)
  IN [i \in 1..Len(names) |-> <<names[i], d[names[i]]>>]

\* t1 < t2 on (name, value) tuples raises TypeError
TupleTypeError(t1, t2) == t1[1] = t2[1] /\ t1[2].tag # t2[2].tag

\* t1 < t2 on (name, value) tuples
TupleLess(t1, t2) ==
  IF t1[1] # t2[1] THEN Rank(OptionNameOrder, t1[1]) < Rank(OptionNameOrder, t2[1])
  ELSE IF t1[2] = t2[2] THEN FALSE
  ELSE IF t1[2].tag = "bool" THEN ~t1[2].b /\ t2[2].b
  ELSE Rank(StrValueOrder, t1[2].s) < Rank(StrValueOrder, t2[2].s)

\* sorted(items): a stable insertion of every item, in turn, into the sorted prefix
RECURSIVE Insert(_, _)
Insert(t, sorted) ==
  IF sorted = << >> THEN <<t>>
  ELSE IF TupleLess(t, Head(sorted)) THEN <<t>> \o sorted
  ELSE <<Head(sorted)>> \o Insert(t, Tail(sorted))

RECURSIVE Sorted(_)
Sorted(items) ==
  IF items = << >> THEN << >>
  ELSE Insert(items[Len(items)], Sorted(SubSeq(items, 1, Len(items) - 1)))

\* lines 273-277: f"-D{arg}={str_val}"
RenderOption(t) ==
  "-D" \o t[1] \o "=" \o (IF t[2].tag = "bool" THEN (IF t[2].b THEN "ON" ELSE "OFF")
                          ELSE t[2].s)

\* lines 270-278: config_strs, or the TypeError of sorted()
ConfigStrs(board_options, config_options) ==
  LET config_args == Items(board_options) \o Items(config_options)
  IN IF \E i, j \in 1..Len(config_args) : TupleTypeError(config_args[i], config_args[j])
       THEN [err |-> "TypeError", strs |-> << >>]
       ELSE [err |-> "",
             strs |-> LET srt == Sorted(config_args)
                      IN [i \in 1..Len(srt) |-> RenderOption(srt[i])]]

\* " ".join(strs)
RECURSIVE Join(_)
Join(strs) ==
  IF strs = << >> THEN ""
  ELSE IF Len(strs) = 1 THEN strs[1]
  ELSE strs[1] \o " " \o Join(Tail(strs))

(***************************************************************************)
(* The matrix: the stages of the cell (Boards[bi], Configs[ci]).           *)
(***************************************************************************)
board == Boards[bi]
config == Configs[ci]

\* RunStage without the check of the status: the run goes on after a failure
RunStageIgnoresStatus(stage, flags, text, showsCmd, yields, next) ==
  \E r \in ExitStatuses :
    /\ cmds' = Append(cmds, Cmd(stage, Boards[bi].name, Configs[ci].name, flags, r))
    /\ pc' = next
    /\ err' = err
    /\ artifact' \in (IF yields THEN BOOLEAN ELSE {FALSE})

\* r = system(cmd); if r != 0: raise Exception(text)
\* (a stage that yields an output file may end with status 0 and the file absent)
RunStage(stage, flags, text, showsCmd, yields, next) ==
  \E r \in ExitStatuses :
    LET cmd == Cmd(stage, board.name, config.name, flags, r)
    IN /\ cmds' = Append(cmds, cmd)
       /\ IF r = 0
            THEN /\ pc' = next
                 /\ err' = err
                 /\ artifact' \in (IF yields THEN BOOLEAN ELSE {FALSE})
            ELSE /\ pc' = "error"
                 /\ err' = IF showsCmd THEN Raise(text, cmd, "", "")
                           ELSE Raise(text, NoCmd, board.name, config.name)
                 /\ artifact' = artifact

\* build_sel4, lines 259-290: cmake configure with the option flags
KernelConfigure ==
  /\ pc = "configure"
  /\ LET opts == ConfigStrs(board.kernel_options, config.kernel_options)
     IN IF opts.err # ""
          THEN /\ pc' = "error"
               /\ err' = [NoErr EXCEPT !.kind = opts.err]
               /\ UNCHANGED <<cmds, artifact>>
          ELSE RunStage("kernel_configure", opts.strs, "Error configuring sel4", TRUE,
                        FALSE, "kernel_build")
  /\ UNCHANGED <<bi, ci, tree, dirs, writes, archives, default_triple, triple, inputs>>

\* build_sel4, lines 292-295
KernelBuild ==
  /\ pc = "kernel_build"
  /\ RunStage("kernel_build", << >>, "Error building sel4", TRUE, FALSE, "kernel_install")
  /\ UNCHANGED <<bi, ci, tree, dirs, writes, archives, default_triple, triple, inputs>>

\* KernelInstall going on to the loader: the components start on an unstaged kernel
KernelInstallThenLoader ==
  /\ pc = "kernel_install"
  /\ \E r \in ExitStatuses :
       /\ cmds' = Append(cmds, Cmd("kernel_install", Boards[bi].name, Configs[ci].name, << >>, r))
       /\ IF r = 0 THEN pc' = "loader" /\ err' = err
          ELSE pc' = "error" /\ err' = Raise("Error installing sel4", cmds'[Len(cmds')], "", "")
       /\ artifact' \in BOOLEAN
  /\ UNCHANGED <<bi, ci, tree, dirs, writes, archives, default_triple, triple, inputs>>

\* build_sel4, lines 297-300
KernelInstall ==
  /\ pc = "kernel_install"
  /\ RunStage("kernel_install", << >>, "Error installing sel4", TRUE, TRUE, "stage_kernel")
  /\ UNCHANGED <<bi, ci, tree, dirs, writes, archives, default_triple, triple, inputs>>

\* lines 311-322: the four header loops, over sources[from..]
RECURSIVE StageKernelHeaders(_, _, _, _, _)
StageKernelHeaders(F, h, b, c, from) ==
  IF from > Len(KernelHeaderSources) THEN F
  ELSE StageKernelHeaders(
         StageTree(F, KernelHeaderSources[from], HeaderFiles(h, KernelHeaderSources[from]),
                   IncludeDir(b, c)),
         h, b, c, from + 1)

\* build_sel4, lines 302-322: what it copies into the release tree
StageKernelFiles(F, h, b, c, present) ==
  StageKernelHeaders(
    StageFile(F, present, Content("new", "sel4/install/bin", <<"kernel.elf">>),
              ElfDest(b, c, "sel4")),
    h, b, c, 1)

StageKernel ==
  /\ pc = "stage_kernel"
  /\ Commit(StageKernelFiles(FS, hdrs, board, config, artifact), "loader")
  /\ UNCHANGED <<bi, ci, archives, cmds, default_triple, triple, artifact, inputs>>

\* the stage that follows a component's, within the cell
AfterComponent(component) == IF component = "loader" THEN "monitor" ELSE "lib"

\* hex() of a number below 2^16, and of a 32-bit number given as its two halves
HexDigit == <<"0", "1", "2", "3", "4", "5", "6", "7", "8", "9", "a", "b", "c", "d", "e", "f">>
RECURSIVE HexDigits(_)
HexDigits(n) ==
  IF n < 16 THEN HexDigit[n + 1] ELSE HexDigits(n \div 16) \o HexDigit[(n % 16) + 1]
HexLow(n) ==
  HexDigit[(n \div 4096) + 1] \o HexDigit[((n \div 256) % 16) + 1]
    \o HexDigit[((n \div 16) % 16) + 1] \o HexDigit[(n % 16) + 1]
hex(halves) ==
  "0x" \o (IF halves[1] = 0 THEN HexDigits(halves[2])
           ELSE HexDigits(halves[1]) \o HexLow(halves[2]))

\* build/<board>/<config>/<component>, lines 338 and 377
BuildDir(b, c, component) == <<"build", b.name, c.name, component>>

\* lines 470-472
loader_defines(b) == << <<"LINK_ADDRESS", hex(b.loader_link_address)>> >>

\* line 342: the assignments that precede make on the command line of an ELF component
ElfEnv(component, b, c, defines) ==
  << <<"BOARD", b.name>>, <<"BUILD_DIR", BuildDir(b, c, component)>>,
     <<"GCC_CPU", b.gcc_cpu>>, <<"SEL4_SDK", CellDir(b, c)>> >> \o defines

\* line 380: the assignments that precede make on the command line of the library
LibEnv(component, b, c) ==
  << <<"BUILD_DIR", BuildDir(b, c, component)>>, <<"GCC_CPU", b.gcc_cpu>>,
     <<"SEL4_SDK", CellDir(b, c)>> >>

\* build_elf_component, lines 337-347
ElfCmd(component) ==
  /\ pc = component
  /\ RunStage(component,
              ElfEnv(component, board, config,
                     IF component = "loader" THEN loader_defines(board) ELSE << >>),
              "Error building: " \o component, FALSE, TRUE, "stage_" \o component)
  /\ UNCHANGED <<bi, ci, tree, dirs, writes, archives, default_triple, triple, inputs>>

\* build_elf_component, lines 348-355: what it copies into the release tree
StageElfFile(F, component, b, c, present) ==
  StageFile(F, present, Content("new", component, <<component \o ".elf">>),
            ElfDest(b, c, component))

StageElf(component) ==
  /\ pc = "stage_" \o component
  /\ Commit(StageElfFile(FS, component, board, config, artifact), AfterComponent(component))
  /\ UNCHANGED <<bi, ci, archives, cmds, default_triple, triple, artifact, inputs>>

\* LibCmd with the old library removed before make runs, not after it succeeded
LibCmdUnlinksFirst ==
  /\ pc = "lib"
  /\ \E r \in ExitStatuses :
       /\ cmds' = Append(cmds, Cmd("libmicrokit", Boards[bi].name, Configs[ci].name,
                                   LibEnv("libmicrokit", Boards[bi], Configs[ci]), r))
       /\ IF r = 0 THEN pc' = "stage_lib" /\ err' = err
          ELSE /\ pc' = "error"
               /\ err' = Raise("Error building: libmicrokit", NoCmd, Boards[bi].name,
                               Configs[ci].name)
       /\ artifact' \in BOOLEAN
  /\ tree' = Unlink(FS, LibDir(Boards[bi], Configs[ci]) \o <<"libmicrokit.a">>).tree
  /\ UNCHANGED <<bi, ci, dirs, writes, archives, default_triple, triple, inputs>>

\* build_lib_component, lines 376-385
LibCmd ==
  /\ pc = "lib"
  /\ RunStage("libmicrokit", LibEnv("libmicrokit", board, config),
              "Error building: libmicrokit", FALSE, TRUE, "stage_lib")
  /\ UNCHANGED <<bi, ci, tree, dirs, writes, archives, default_triple, triple, inputs>>

\* build_lib_component, lines 386-411: what it copies into the release tree
StageLibFiles(F, h, b, c, present) ==
  StageTree(
    StageFile(
      StageFile(F, present, Content("new", "libmicrokit", <<"libmicrokit.a">>),
                LibDir(b, c) \o <<"libmicrokit.a">>),
      TRUE, Content("new", "libmicrokit", <<"microkit.ld">>), LibDir(b, c) \o <<"microkit.ld">>),
    LibHeaderSource, HeaderFiles(h, LibHeaderSource), IncludeDir(b, c))

\* StageLib leaving the config loop after the board's first config
StageLibThenExamples ==
  /\ pc = "stage_lib"
  /\ Commit(StageLibFiles(FS, hdrs, Boards[bi], Configs[ci], artifact), "examples")
  /\ UNCHANGED <<bi, ci, archives, cmds, default_triple, triple, artifact, inputs>>

\* the rest of the config loop, line 469: the next config, or the board's examples
StageLib ==
  /\ pc = "stage_lib"
  /\ Commit(StageLibFiles(FS, hdrs, board, config, artifact),
            IF ci < Len(Configs) THEN "configure" ELSE "examples")
  /\ ci' = IF pc' = "configure" THEN ci + 1 ELSE ci
  /\ UNCHANGED <<bi, archives, cmds, default_triple, triple, artifact, inputs>>

\* lines 478-489, for the examples exs of board b
RECURSIVE StageExamples(_, _, _)
StageExamples(F, b, exs) ==
  IF exs = {} THEN F
  ELSE LET example == CHOOSE e \in exs : TRUE
       IN StageExamples(StageTree(F, "example/" \o b.name \o "/" \o example, ExampleFiles,
                                  ExampleDir(b, example)),
                        b, exs \ {example})

\* lines 477-489, and the board loop of line 468: the next board, or the end of main
Examples ==
  /\ pc = "examples"
  /\ Commit(StageExamples(FS, board, board.examples),
            IF bi < Len(Boards) THEN "configure" ELSE "done")
  /\ bi' = IF pc' = "configure" THEN bi + 1 ELSE bi
  /\ ci' = IF pc' = "configure" THEN 1 ELSE ci
  /\ UNCHANGED <<archives, cmds, default_triple, triple, artifact, inputs>>

Next ==
  \/ Detect
  \/ ParseArgs
  \/ CheckSel4
  \/ MakeDirs
  \/ CopyLicense
  \/ CopyLicenses
  \/ ToolCheck
  \/ test_tool
  \/ BuildTool
  \/ StripTool
  \/ CopyTool
  \/ build_doc
  \/ KernelConfigure
  \/ KernelBuild
  \/ KernelInstall
  \/ StageKernel
  \/ ElfCmd("loader")
  \/ StageElf("loader")
  \/ ElfCmd("monitor")
  \/ StageElf("monitor")
  \/ LibCmd
  \/ StageLib
  \/ Examples

Spec == Init /\ [][Next]_vars

(***************************************************************************)
(* The kernel option flags on their own: config_strs of build_sel4 for any *)
(* two dictionaries over a few option names and values.                    *)
(***************************************************************************)
MergeNames == {OptionNameOrder[i] : i \in 3..(2 + NumOptNames)}
MergeStrValues == <<"zcu102", "zynqmp", "2048">>
MergeValues == {B(TRUE), B(FALSE)} \cup {S(MergeStrValues[i]) : i \in 1..NumStrValues}
OptionDicts == UNION {[D -> MergeValues] : D \in SUBSET MergeNames}

InitMerge ==
  /\ pc = "idle"
  /\ bi = 1 /\ ci = 1
  /\ host = <<"Linux", "x86_64">>
  /\ argv_triple = ""
  /\ prior = "none"
  /\ lic_mode = ModeDefault
  /\ hdrs = [s \in HeaderSources |-> NoHeader]
  /\ tree = << >>
  /\ dirs = {}
  /\ writes = << >>
  /\ archives = {}
  /\ cmds = << >>
  /\ err = NoErr
  /\ default_triple = ""
  /\ triple = ""
  /\ artifact = FALSE
  /\ \E b \in OptionDicts, c \in OptionDicts :
       call = [fn |-> "config_strs", done |-> FALSE, board_options |-> b,
               config_options |-> c, ret |-> [err |-> "", strs |-> << >>]]

\* lines 270-278 on the two dictionaries
EvalConfigStrs ==
  /\ call.fn = "config_strs"
  /\ ~call.done
  /\ call' = [call EXCEPT !.done = TRUE,
                          !.ret = ConfigStrs(call.board_options, call.config_options)]
  /\ UNCHANGED <<pc, bi, ci, tree, dirs, writes, archives, cmds, err, default_triple,
                 triple, artifact, host, argv_triple, prior, lic_mode, hdrs>>

NextMerge == EvalConfigStrs

SpecMerge == InitMerge /\ [][NextMerge]_vars

(***************************************************************************)
(* tar_filter on its own: two entries of one name and one kind, as two     *)
(* build environments would hand them to the filter.                       *)
(***************************************************************************)
\* main() at rest while a function is evaluated on its own
main_vars == <<pc, bi, ci, tree, dirs, writes, archives, cmds, err, default_triple, triple,
               artifact, host, argv_triple, prior, lic_mode, hdrs>>

Idle ==
  /\ pc = "idle"
  /\ bi = 1 /\ ci = 1
  /\ host = <<"Linux", "x86_64">>
  /\ argv_triple = ""
  /\ prior = "none"
  /\ lic_mode = ModeDefault
  /\ hdrs = [s \in HeaderSources |-> NoHeader]
  /\ tree = << >>
  /\ dirs = {}
  /\ writes = << >>
  /\ archives = {}
  /\ cmds = << >>
  /\ err = NoErr
  /\ default_triple = ""
  /\ triple = ""
  /\ artifact = FALSE

\* line 31
MICROKIT_EPOCH == 1616367257

\* tarfile: isfile() is true of the regular types, isdir() of DIRTYPE
isfile(tarinfo) == tarinfo.type \in {"REGTYPE", "AREGTYPE", "CONTTYPE"}
isdir(tarinfo) == tarinfo.type = "DIRTYPE"

\* "/bin/" in tarinfo.name, the name as its components: a component bin that is neither
\* the first (no slash before it) nor the last (no slash after it)
InBin(name) == \E i \in 2..(Len(name) - 1) : name[i] = "bin"

\* mode & ~0o777 | perm
Reperm(mode, perm) == (mode \div 512) * 512 + perm

\* tar_filter without the assertion of line 195: an entry of any kind is returned
tar_filter_unasserted(tarinfo) ==
  LET forced == [tarinfo EXCEPT !.uid = 0, !.gid = 0, !.uname = "microkit",
                                !.gname = "microkit", !.pax_headers = << >>,
                                !.mtime = MICROKIT_EPOCH]
  IN [raised |-> "",
      entry |-> <<IF isdir(forced) THEN [forced EXCEPT !.mode = Reperm(@, Octal(5, 5, 7))]
                  ELSE IF isfile(forced) THEN
                    IF InBin(forced.name) THEN [forced EXCEPT !.mode = Reperm(@, Octal(7, 5, 5))]
                    ELSE [forced EXCEPT !.mode = Reperm(@, Octal(6, 4, 4))]
                  ELSE forced>>]

\* lines 184-205; entry is <<the returned TarInfo>>, or << >> when the call raised
tar_filter(tarinfo) ==
  LET forced == [tarinfo EXCEPT !.uid = 0, !.gid = 0, !.uname = "microkit",
                                !.gname = "microkit", !.pax_headers = << >>,
                                !.mtime = MICROKIT_EPOCH]
  IN IF ~(isfile(forced) \/ isdir(forced)) THEN [raised |-> "AssertionError", entry |-> << >>]
     ELSE IF isdir(forced)
       THEN [raised |-> "", entry |-> <<[forced EXCEPT !.mode = Reperm(@, Octal(5, 5, 7))]>>]
     ELSE IF InBin(forced.name)
       THEN [raised |-> "", entry |-> <<[forced EXCEPT !.mode = Reperm(@, Octal(7, 5, 5))]>>]
     ELSE [raised |-> "", entry |-> <<[forced EXCEPT !.mode = Reperm(@, Octal(6, 4, 4))]>>]

\* the entries of a release tree: their names under microkit-sdk-<version>/ ...
TarNames == {<<"microkit-sdk-1.2.6", "bin">>,
             <<"microkit-sdk-1.2.6", "bin", "microkit">>,
             <<"microkit-sdk-1.2.6", "doc", "microkit_user_manual.pdf">>}
\* ... and their kinds: a file, a directory, a symbolic link, a FIFO
TarTypes == {"REGTYPE", "DIRTYPE", "SYMTYPE", "FIFOTYPE"}
\* what the build environment puts in an entry: the owner, ...
TarOwners == {[uid |-> 0, gid |-> 0, uname |-> "root", gname |-> "root"],
              [uid |-> 1000, gid |-> 100, uname |-> "alice", gname |-> "users"]}
\* ... the modification time, the extended headers, ...
TarTimes == {MICROKIT_EPOCH, 1700000000}
TarHeaders == {<< >>, [comment |-> "built by alice"]}
\* ... and the mode, S_IMODE of the file: 0o644, 0o444, 0o2775 (setgid), 0o4755 (setuid)
TarModes == {Octal(6, 4, 4), Octal(4, 4, 4), 2 * 512 + Octal(7, 7, 5), 4 * 512 + Octal(7, 5, 5)}

TarInfo(name, type, owner, mtime, pax_headers, mode) ==
  [name |-> name, type |-> type, uid |-> owner.uid, gid |-> owner.gid,
   uname |-> owner.uname, gname |-> owner.gname, pax_headers |-> pax_headers,
   mtime |-> mtime, mode |-> mode]

TarInfos(name, type) ==
  {TarInfo(name, type, o, t, h, m) : o \in TarOwners, t \in TarTimes, h \in TarHeaders,
                                     m \in TarModes}

InitTar ==
  /\ Idle
  /\ \E name \in TarNames, type \in TarTypes :
       \E a \in TarInfos(name, type), b \in TarInfos(name, type) :
         call = [fn |-> "tar_filter", done |-> FALSE, a |-> a, b |-> b,
                 ret_a |-> [raised |-> "", entry |-> << >>],
                 ret_b |-> [raised |-> "", entry |-> << >>]]

\* the filter applied to each of the two entries
EvalTarFilter ==
  /\ call.fn = "tar_filter"
  /\ ~call.done
  /\ call' = [call EXCEPT !.done = TRUE, !.ret_a = tar_filter(call.a),
                          !.ret_b = tar_filter(call.b)]
  /\ UNCHANGED main_vars

NextTar == EvalTarFilter

SpecTar == InitTar /\ [][NextTar]_vars

(***************************************************************************)
(* get_tool_target_triple on its own, over what platform.system() and      *)
(* platform.machine() report.                                              *)
(***************************************************************************)
HostSystems == {"Linux", "Darwin", "Windows", "FreeBSD", "OpenBSD", "SunOS", "Java", ""}
HostMachines == {"x86_64", "arm64", "aarch64", "AMD64", "riscv64", "i686", "ppc64le", ""}

InitTriple ==
  /\ Idle
  /\ \E s \in HostSystems, m \in HostMachines :
       call = [fn |-> "get_tool_target_triple", done |-> FALSE, system |-> s, machine |-> m,
               ret |-> [ok |-> FALSE, triple |-> "", text |-> ""]]

EvalTriple ==
  /\ call.fn = "get_tool_target_triple"
  /\ ~call.done
  /\ call' = [call EXCEPT !.done = TRUE,
                          !.ret = get_tool_target_triple(call.system, call.machine)]
  /\ UNCHANGED main_vars

NextTriple == EvalTriple

SpecTriple == InitTriple /\ [][NextTriple]_vars

(***************************************************************************)
(* The claims.                                                             *)
(***************************************************************************)
\* the stages of a matrix cell that run an external command
KernelStages == {"kernel_configure", "kernel_build", "kernel_install"}
ComponentStages == {"loader", "monitor", "libmicrokit"}
StageNames == KernelStages \cup ComponentStages

Exists(p) == p \in DOMAIN tree
IsNew(p) == Exists(p) /\ tree[p].content.gen = "new"
\* mode 0o444
ReadOnly(p) == Exists(p) /\ tree[p].mode = 292
LastCmd == cmds[Len(cmds)]

\* board/<board>/<config>/ of the release tree, by the names of the two
UnderCell(p, bn, cn) == Len(p) > 3 /\ p[1] = "board" /\ p[2] = bn /\ p[3] = cn

\* the headers the source trees srcs hold, as paths of board/<bn>/<cn>/include
HeadersOf(srcs, bn, cn) ==
  {<<"board", bn, cn, "include">> \o hdrs[s] : s \in {x \in srcs : hdrs[x] # NoHeader}}

\* the files the claims name for a cell
CellArtifacts(bn, cn) ==
  {<<"board", bn, cn, "elf", "sel4.elf">>, <<"board", bn, cn, "elf", "loader.elf">>,
   <<"board", bn, cn, "elf", "monitor.elf">>, <<"board", bn, cn, "lib", "libmicrokit.a">>,
   <<"board", bn, cn, "lib", "microkit.ld">>} \cup HeadersOf(HeaderSources, bn, cn)

\* C1: when main() has completed without raising, every cell's kernel, loader and
\* monitor images, its library, its linker script and every header copied into its
\* include/ exist in the release tree with mode 0o444.
C1_ArtifactsReadOnly ==
  pc = "done" =>
    \A b \in BoardIdx, c \in ConfigIdx :
      \A p \in CellArtifacts(Boards[b].name, Configs[c].name) : Exists(p) /\ ReadOnly(p)

\* a run over an empty release directory has completed, and headers were copied
C1_Witness ==
  /\ pc = "done"
  /\ prior = "none"
  /\ \A s \in HeaderSources : hdrs[s] # NoHeader
  /\ \A b \in BoardIdx, c \in ConfigIdx :
       \A p \in CellArtifacts(Boards[b].name, Configs[c].name) : IsNew(p)

\* C2: once a stage command of the matrix has returned a non-zero status, it is the
\* last command the run invokes and the run has ended in an error.
C2_FailFast ==
  \A i \in 1..Len(cmds) :
    (cmds[i].stage \in StageNames /\ cmds[i].rc # 0) => (i = Len(cmds) /\ pc = "error")

\* the kernel build of the first cell failed, with every other cell still to come
C2_Witness ==
  /\ pc = "error"
  /\ Len(cmds) > 0
  /\ LastCmd.stage = "kernel_build" /\ LastCmd.rc # 0
  /\ bi = 1 /\ ci = 1

\* C3: a step that runs a stage command of the matrix leaves the files and the
\* directories of the release tree as they were, whatever its status (the three
\* commands of the kernel stage included, so at a failure the tree is the one the
\* stage started with), and nothing changes them once the run has failed.
C3_FailedStageKeepsTree ==
  [][((Len(cmds') = Len(cmds) + 1 /\ cmds'[Len(cmds')].stage \in StageNames) \/ pc = "error")
       => (tree' = tree /\ dirs' = dirs)]_vars

\* the library stage of the last cell failed; what the run staged before is in place
C3_Witness ==
  /\ pc = "error"
  /\ Len(cmds) > 0
  /\ LastCmd.stage = "libmicrokit" /\ LastCmd.rc # 0
  /\ bi = Len(Boards) /\ ci = Len(Configs)
  /\ prior = "full"
  /\ IsNew(<<"board", Boards[bi].name, Configs[ci].name, "elf", "monitor.elf">>)
  /\ IsNew(<<"board", Boards[1].name, Configs[1].name, "lib", "libmicrokit.a">>)
  /\ ~IsNew(<<"board", Boards[bi].name, Configs[ci].name, "lib", "libmicrokit.a">>)

\* the kernel stage of cell (bn, cn) has staged its image and its headers
KernelStaged(bn, cn) ==
  /\ IsNew(<<"board", bn, cn, "elf", "sel4.elf">>)
  /\ ReadOnly(<<"board", bn, cn, "elf", "sel4.elf">>)
  /\ \A p \in HeadersOf({KernelHeaderSources[i] : i \in 1..Len(KernelHeaderSources)}, bn, cn) :
       IsNew(p) /\ ReadOnly(p)

\* C4: a loader, monitor or library command is started (it is then the last command
\* of the log) only after the three kernel commands of the same cell succeeded, and
\* with the kernel image and the kernel headers of that cell staged under
\* board/<board>/<config>/; they stay staged until the next command starts.
C4_ComponentsAfterKernel ==
  (Len(cmds) > 0 /\ LastCmd.stage \in ComponentStages) =>
    /\ \A k \in KernelStages :
         \E j \in 1..(Len(cmds) - 1) : /\ cmds[j].stage = k
                                       /\ cmds[j].board = LastCmd.board
                                       /\ cmds[j].config = LastCmd.config
                                       /\ cmds[j].rc = 0
    /\ KernelStaged(LastCmd.board, LastCmd.config)

\* the loader command of the second cell has just started, over a tree an earlier run left
C4_Witness ==
  /\ Len(cmds) > 0
  /\ LastCmd.stage = "loader"
  /\ pc = "stage_loader"
  /\ ci = 2
  /\ prior = "full"
  /\ \E s \in HeaderSources : s # LibHeaderSource /\ hdrs[s] # NoHeader

\* C5: when the whole matrix has completed, the archive of the release tree and the
\* archive of the sources have been written.
C5_ArchivesWritten ==
  pc = "done" => {tar_file, source_tar_file} \subseteq archives

\* the flags of the claim: one per option name, by name, the config's value winning
ClaimedFlags(board_options, config_options) ==
  LET merged == [n \in DOMAIN board_options \cup DOMAIN config_options |->
                   IF n \in DOMAIN config_options THEN config_options[n]
                   ELSE board_options[n]]
      names == SelectSeq(OptionNameOrder, LAMBDA n : n \in DOMAIN merged)
  IN [i \in 1..Len(names) |-> RenderOption(<<names[i], merged[names[i]]>>)]

\* C6: the option flags of a board and a config are one -D<name>=<value> per distinct
\* option name, sorted by name, with the config's value on a name both have; booleans
\* as ON/OFF, strings verbatim.
C6_OptionMerge ==
  call.done =>
    /\ call.ret.err = ""
    /\ call.ret.strs = ClaimedFlags(call.board_options, call.config_options)

\* the paths the claim on overwriting names: what the run stages
StagedPaths ==
  {LicenseDest}
    \cup {LicensesDir \o LicenseFiles[i] : i \in 1..Len(LicenseFiles)}
    \cup UNION {CellArtifacts(Boards[b].name, Configs[c].name) : b \in BoardIdx, c \in ConfigIdx}
    \cup UNION {{ExampleDir(Boards[b], e) \o ExampleFiles[i] :
                   e \in Boards[b].examples, i \in 1..Len(ExampleFiles)} : b \in BoardIdx}

\* the file at p when the run started
PriorFile(p) == PriorFiles(lic_mode, hdrs)[p]

\* C7: staging onto a path that holds a read-only file of an earlier run succeeds,
\* and then the path holds the new content.
C7_OverwriteOverImmutable ==
  prior = "full" =>
    \A p \in StagedPaths :
      ~HasWriteBit(PriorFile(p).mode) =>
        /\ ~(pc = "error" /\ err.kind = "PermissionError" /\ err.path = p)
        /\ (p \in DOMAIN writes => IsNew(p))

\* C8: a file the run has placed in the release tree has no write permission bit.
C8_StagedReadOnly ==
  \A p \in DOMAIN writes : Exists(p) => ~HasWriteBit(tree[p].mode)

\* C9: no path of the release tree is written more than once in a run.
C9_WriteOnce ==
  \A p \in DOMAIN writes : writes[p] <= 1

\* the positions of main() inside build_sel4, build_elf_component and build_lib_component
CellPcs == {"configure", "kernel_build", "kernel_install", "stage_kernel", "loader",
            "stage_loader", "monitor", "stage_monitor", "lib", "stage_lib"}

\* a step touches the release tree only under board/<bn>/<cn>/
StepWithin(bn, cn) ==
  /\ \A p \in DOMAIN tree \cup DOMAIN tree' :
       (p \notin DOMAIN tree \/ p \notin DOMAIN tree' \/ tree'[p] # tree[p])
         => UnderCell(p, bn, cn)
  /\ \A d \in dirs' \ dirs : UnderCell(d, bn, cn)
  /\ dirs \subseteq dirs'

\* C10: a step of a stage of cell (board, config) creates, removes and changes files,
\* and creates directories, only under board/<board>/<config>/.
C10_CellWritesOwnSubtree ==
  [][(pc \in CellPcs) => StepWithin(Boards[bi].name, Configs[ci].name)]_vars

\* the last cell has staged its kernel, loader, monitor and library over an empty tree
C10_Witness ==
  /\ pc = "examples"
  /\ bi = Len(Boards)
  /\ prior = "none"
  /\ \A s \in HeaderSources : hdrs[s] # NoHeader
  /\ \A p \in CellArtifacts(Boards[bi].name, Configs[ci].name) : IsNew(p)

(***************************************************************************)
(* The tool, the host and the arguments.                                   *)
(***************************************************************************)
\* the release tree as the run found it
InitialTree == IF prior = "full" THEN PriorFiles(lic_mode, hdrs) ELSE << >>
InitialDirs == IF prior = "full" THEN PriorDirs(InitialTree) ELSE {}

ToolStages == {"test_tool", "build_tool", "strip_tool"}
ToolCmds == {i \in DOMAIN cmds : cmds[i].stage \in ToolStages}
\* main() has left the test of line 460 and what it guards behind it
PastTool == \E i \in DOMAIN cmds : cmds[i].stage \in {"doc"} \cup StageNames
\* the test, the build and the strip ran in this order and succeeded, and the tool is installed
ToolBuilt ==
  /\ Len(cmds) >= 3
  /\ <<cmds[1].stage, cmds[2].stage, cmds[3].stage>> = <<"test_tool", "build_tool", "strip_tool">>
  /\ \A i \in 1..3 : cmds[i].rc = 0
  /\ IsNew(ToolTarget)

\* C11: the tool is tested and built exactly in the runs that found no file at
\* bin/microkit: such a run has tested, built, stripped and installed the tool before its
\* first later command (the manual, then the kernel of the first cell), and a run that
\* found the file runs neither command and leaves the file as it was.
C11_ToolBuiltOnce ==
  /\ ToolTarget \in DOMAIN InitialTree =>
        /\ ToolCmds = {}
        /\ ToolTarget \in DOMAIN tree /\ tree[ToolTarget] = InitialTree[ToolTarget]
        /\ ToolTarget \notin DOMAIN writes
  /\ ToolCmds # {} => ToolTarget \notin DOMAIN InitialTree /\ cmds[1].stage = "test_tool"
  /\ PastTool /\ ToolTarget \notin DOMAIN InitialTree => ToolBuilt

C11_Witness ==
  /\ pc = "kernel_build"
  /\ ToolTarget \notin DOMAIN InitialTree
  /\ ToolBuilt
  /\ LastCmd.stage = "kernel_configure"

(***************************************************************************)
(* The archive filter.                                                     *)
(***************************************************************************)
\* what of a returned entry the archive records beside its name, kind and content
Metadata(e) == <<e.uid, e.gid, e.uname, e.gname, e.pax_headers, e.mtime, e.mode>>

\* C12: two entries of the same name and the same kind, a regular file or a directory,
\* leave tar_filter with the same uid, gid, uname, gname, pax_headers, mtime and mode,
\* whatever these were on the way in, the mode's bits above 0o777 included.
C12_MetadataIndependent ==
  call.fn = "tar_filter" /\ call.done /\ call.a.type \in {"REGTYPE", "DIRTYPE"} =>
    /\ call.ret_a.raised = "" /\ call.ret_b.raised = ""
    /\ Metadata(call.ret_a.entry[1]) = Metadata(call.ret_b.entry[1])

(***************************************************************************)
(* The triple of the host.                                                 *)
(***************************************************************************)
\* C13: get_tool_target_triple returns x86_64-unknown-linux-musl on Linux,
\* x86_64-apple-darwin on Darwin/x86_64 and aarch64-apple-darwin on Darwin/arm64; on every
\* other (system, machine) pair it raises and returns no triple.
C13_TripleTable ==
  call.fn = "get_tool_target_triple" /\ call.done =>
    IF call.system = "Linux"
      THEN call.ret.ok /\ call.ret.triple = "x86_64-unknown-linux-musl"
    ELSE IF <<call.system, call.machine>> = <<"Darwin", "x86_64">>
      THEN call.ret.ok /\ call.ret.triple = "x86_64-apple-darwin"
    ELSE IF <<call.system, call.machine>> = <<"Darwin", "arm64">>
      THEN call.ret.ok /\ call.ret.triple = "aarch64-apple-darwin"
    ELSE ~call.ret.ok /\ call.ret.triple = "" /\ call.ret.text # ""

C13_Witness ==
  /\ call.fn = "get_tool_target_triple" /\ call.done
  /\ <<call.system, call.machine>> = <<"Darwin", "riscv64">>
  /\ ~call.ret.ok
  /\ call.ret.text = "Unexpected Darwin architecture: riscv64"

(***************************************************************************)
(* What a stage failure reports.                                           *)
(***************************************************************************)
\* the stage an error message names by its wording
StageNamed(text) ==
  CASE text = "Error configuring sel4" -> "kernel_configure"
    [] text = "Error building sel4" -> "kernel_build"
    [] text = "Error installing sel4" -> "kernel_install"
    [] text = "Error building: loader" -> "loader"
    [] text = "Error building: monitor" -> "monitor"
    [] text = "Error building: libmicrokit" -> "libmicrokit"
    [] OTHER -> ""
\* the message shows the command line
ShowsCmd(e) == e.cmd # NoCmd
\* the message names the board and the config: in fields of their own, or in the
\* build/<board>/<config>/ paths of the command line it shows
ShowsBoard(e, bn) == e.board = bn \/ (ShowsCmd(e) /\ e.cmd.board = bn)
ShowsConfig(e, cn) == e.config = cn \/ (ShowsCmd(e) /\ e.cmd.config = cn)
\* the run ended at a stage command that returned a non-zero status
StageFailed == pc = "error" /\ Len(cmds) > 0 /\ LastCmd.stage \in StageNames /\ LastCmd.rc # 0

\* C14: the error raised for a failed stage command (kernel configure, build or install,
\* loader, monitor, library) shows the command that failed, the board, the config and
\* the stage.
C14_FailureNamesAll ==
  StageFailed =>
    /\ err.cmd = LastCmd
    /\ ShowsBoard(err, board.name)
    /\ ShowsConfig(err, config.name)
    /\ StageNamed(err.text) = LastCmd.stage

\* C15: a path of the release tree that held a file when the run started holds a file
\* when the run ends, also when a stage command returned zero and left no output file
\* in the build directory.
C15_NothingLeftDeleted ==
  pc \in {"done", "error"} => \A p \in DOMAIN InitialTree : Exists(p)

(***************************************************************************)
(* The environment of the component builds.                                *)
(***************************************************************************)
EnvNames(cmd) == {cmd.flags[i][1] : i \in DOMAIN cmd.flags}
EnvValue(cmd, name) == (CHOOSE i \in DOMAIN cmd.flags : cmd.flags[i][1] = name)
CommonEnv == {"BOARD", "BUILD_DIR", "GCC_CPU", "SEL4_SDK"}
\* the link addresses of the boards, as hex() prints them
ClaimedLinkAddress(bn) ==
  CASE bn = "tqma8xqp1gb" -> "0x80280000"
    [] bn = "zcu102" -> "0x40000000"
    [] bn = "maaxboard" -> "0x40480000"
    [] bn = "imx8mm_evk" -> "0x41000000"
    [] bn = "imx8mq_evk" -> "0x41000000"
    [] bn = "odroidc2" -> "0x20000000"
    [] bn = "odroidc4" -> "0x20000000"
    [] bn = "qemu_virt_aarch64" -> "0x70000000"

\* C16: the library build and the monitor build are given exactly BOARD, BUILD_DIR,
\* GCC_CPU and SEL4_SDK; the loader build is given these four and LINK_ADDRESS, set to
\* the board's loader link address in hex.
C16_ComponentEnv ==
  \A i \in DOMAIN cmds :
    /\ cmds[i].stage \in {"libmicrokit", "monitor"} => EnvNames(cmds[i]) = CommonEnv
    /\ cmds[i].stage = "loader" =>
         /\ EnvNames(cmds[i]) = CommonEnv \cup {"LINK_ADDRESS"}
         /\ cmds[i].flags[EnvValue(cmds[i], "LINK_ADDRESS")][2]
              = ClaimedLinkAddress(cmds[i].board)

(***************************************************************************)
(* The examples of a board.                                                *)
(***************************************************************************)
ExamplePaths(b) ==
  {ExampleDir(b, e) \o ExampleFiles[f] : e \in b.examples, f \in DOMAIN ExampleFiles}
\* this run has written a file of the examples of board b
ExamplesWritten(b) == \E p \in ExamplePaths(b) : p \in DOMAIN writes
\* C17: a run writes the example files of a board only when every stage of every config
\* of the board has succeeded and its artifacts are staged, has written all of them
\* before it runs a stage of a later board, and writes none of them when a stage of the
\* board has failed.
C17_ExamplesAfterBoard ==
  LET succeeded == {<<cmds[i].stage, cmds[i].board, cmds[i].config>> :
                      i \in {j \in DOMAIN cmds : cmds[j].rc = 0}}
      failed == {cmds[i].board : i \in {j \in DOMAIN cmds : cmds[j].rc # 0}}
      started == {cmds[i].board : i \in DOMAIN cmds}
  IN \A k \in BoardIdx :
       /\ ExamplesWritten(Boards[k]) =>
            /\ Boards[k].name \notin failed
            /\ \A c \in ConfigIdx :
                 /\ \A st \in StageNames :
                      <<st, Boards[k].name, Configs[c].name>> \in succeeded
                 /\ \A p \in CellArtifacts(Boards[k].name, Configs[c].name) : IsNew(p)
       /\ (\E l \in BoardIdx : l > k /\ Boards[l].name \in started) =>
            \A p \in ExamplePaths(Boards[k]) : IsNew(p) /\ p \in DOMAIN writes

\* the second board's kernel is being built over an earlier release; the first board's
\* examples are the new ones
C17_Witness ==
  /\ pc = "kernel_build" /\ bi = 2
  /\ prior = "full"
  /\ \A p \in ExamplePaths(Boards[1]) : IsNew(p) /\ p \in DOMAIN writes
  /\ ~ExamplesWritten(Boards[2])

(***************************************************************************)
(* The checks that precede the first change of the release tree.           *)
(***************************************************************************)
\* the release tree is as the run found it, and the run has run no command
Untouched ==
  /\ tree = InitialTree
  /\ dirs = InitialDirs
  /\ writes = << >>
  /\ archives = {}
  /\ cmds = << >>

\* C18: a run whose --sel4 path does not exist has raised with the release tree as it
\* found it: no directory created, no licence copied, no tool or manual built, no
\* stage command run.
C18_MissingSel4 ==
  pc = "error" /\ err.text = "sel4_dir: does not exist" => Untouched

\* the check failed in a run that found the release of an earlier run
C18_Witness ==
  /\ pc = "error"
  /\ err.text = "sel4_dir: does not exist"
  /\ prior = "full"
  /\ tree = InitialTree

\* (platform.system(), platform.machine()) is a host get_tool_target_triple has a triple for
SupportedHost ==
  \/ host[1] = "Linux"
  \/ host[1] = "Darwin" /\ host[2] \in {"x86_64", "arm64"}

\* C19: on an unsupported host the run gets no further than the host detection, whether
\* or not the command line gives --tool-target-triple: it ends with the detection error,
\* the arguments unparsed and the release tree as the run found it.
C19_DetectionFirst ==
  ~SupportedHost =>
    /\ pc \in {"detect", "error"}
    /\ pc = "error" =>
          err.text \in {"The platform \"" \o host[1] \o "\" is not supported",
                        "Unexpected Darwin architecture: " \o host[2]}
    /\ triple = ""
    /\ Untouched

\* the detection failed although the command line names a triple
C19_Witness ==
  /\ pc = "error"
  /\ host = <<"Windows", "AMD64">>
  /\ argv_triple = "aarch64-unknown-linux-musl"
  /\ err.text = "The platform \"Windows\" is not supported"

(***************************************************************************)
(* The kinds of entry the archive filter lets through.                     *)
(***************************************************************************)
\* C20: tar_filter returns an entry for a regular file and for a directory; for an
\* entry of any other kind it raises and returns nothing.
C20_OnlyFilesAndDirs ==
  call.fn = "tar_filter" /\ call.done =>
    \A r \in {<<call.a, call.ret_a>>, <<call.b, call.ret_b>>} :
      IF r[1].type \in {"REGTYPE", "DIRTYPE"}
        THEN r[2].raised = "" /\ Len(r[2].entry) = 1 /\ r[2].entry[1].type = r[1].type
        ELSE r[2].raised = "AssertionError" /\ r[2].entry = << >>

\* a symbolic link under bin/ was handed to the filter
C20_Witness ==
  /\ call.fn = "tar_filter" /\ call.done
  /\ call.a.type = "SYMTYPE"
  /\ call.a.name = <<"microkit-sdk-1.2.6", "bin", "microkit">>
  /\ call.ret_a.raised = "AssertionError"


=============================================================================
